---- MODULE Spec2Model ----
(***************************************************************************)
(* SilkyNet counting pipeline (api/inference.py, SilkyNetInference) and    *)
(* the part of the /api/segment handler (app.py) that consumes it.         *)
(*                                                                         *)
(* Contours are represented by their areas.  cv2.contourArea returns       *)
(* multiples of 0.5, so an area is a natural number counted in units of    *)
(* half a pixel.  The median is kept doubled (median2 = 2 * median), which *)
(* makes every comparison of count_contours an integer comparison:         *)
(*     area < 0.2 * median   <=>  10 * area < median2                      *)
(*     area < 0.5 * median   <=>   4 * area < median2                      *)
(*     area > 1.0 * median   <=>   2 * area > median2                      *)
(* For areas of this form the float64 products 0.2*m, 0.5*m, 1.0*m compare *)
(* with an area exactly as the rationals do.                               *)
(* The confidence is kept as a fraction <<numerator, denominator>>.        *)
(***************************************************************************)
EXTENDS Integers, Sequences, FiniteSets, TLC

\* ------------------------------------------------------------------ bounds
MaxContours == 4
MaxArea == 4
MaxSeparated == 3
MaxScale == 3
MaxContoursWide == 8
MaxAreaWide == 2
MaxExtraDim == 1
MaxContoursResize == 2

\* ------------------------------------------------------- program constants
\* default of the constructor argument img_size, (width, height)
img_size == <<512, 512>>

\* sizes an uploaded image can have: the configured one, wider ones and
\* taller ones
ImageSizes ==
    {img_size}
    \cup {<<img_size[1] + 256 * d, img_size[2]>> : d \in 1..MaxExtraDim}
    \cup {<<img_size[1], img_size[2] + 256 * d>> : d \in 1..MaxExtraDim}

\* the statements of _separate_overlapped's try block that can throw
FailSteps == {"drawContours", "distance_transform_edt", "peak_local_max",
              "label", "watershed"}

\* what the library calls inside _separate_overlapped can do on one call
WatershedOutcomes ==
    [kind : {"fail"}, step : FailSteps, num_separated : {0}]
    \cup [kind : {"nopeaks"}, step : {"none"}, num_separated : {0}]
    \cup [kind : {"regions"}, step : {"none"}, num_separated : 0..MaxSeparated]

NotRun == [kind |-> "notrun", step |-> "none", num_separated |-> 0]

NoResult == [absent |-> TRUE]

\* ------------------------------------------------------------ np.median
RECURSIVE Insert(_, _)
Insert(x, s) ==
    IF s = <<>> THEN <<x>>
    ELSE IF x <= Head(s) THEN <<x>> \o s
    ELSE <<Head(s)>> \o Insert(x, Tail(s))

RECURSIVE Sort(_)
Sort(s) == IF s = <<>> THEN <<>> ELSE Insert(Head(s), Sort(Tail(s)))

\* twice np.median(contour_areas), for a non-empty list
median2(areas) ==
    LET s == Sort(areas)
        n == Len(s)
    IN  IF n % 2 = 1 THEN 2 * s[(n + 1) \div 2]
        ELSE s[n \div 2] + s[n \div 2 + 1]

\* ------------------------------------------------- the classification loop
IsArtifact(area, m2) == 10 * area < m2

IsPartial(area, m2) == 10 * area >= m2 /\ 4 * area < m2

\* area >= 1.0 * median_area
IsOverlapped_inclusive(area, m2) == 2 * area >= m2

\* area > 1.0 with the median left out
IsOverlapped_absolute(area, m2) == 2 * area > 2

IsOverlapped(area, m2) == 2 * area > m2

\* the if / elif / elif chain of the loop body; "none" when no branch is taken
Classify(area, m2) ==
    IF IsArtifact(area, m2) THEN "artifact"
    ELSE IF IsPartial(area, m2) THEN "partial"
    ELSE IF IsOverlapped(area, m2) THEN "overlapped"
    ELSE "none"

\* the value of a counter (artifacts, partial, overlapped) after the loop
CountClass(areas, m2, cls) ==
    Cardinality({i \in DOMAIN areas : Classify(areas[i], m2) = cls})

Max(a, b) == IF a >= b THEN a ELSE b

\* ------------------------------------------------------ _separate_overlapped
\* value: the returned additional count; raised: an exception left the call.
\* Every statement that can throw is inside the try block, whose handler
\* returns 0.
\* the difference returned without max(0, ...)
_separate_overlapped_unclamped(outcome, num_overlapped) ==
    IF outcome.kind = "fail" THEN [value |-> 0, raised |-> FALSE]
    ELSE IF outcome.kind = "nopeaks" THEN [value |-> 0, raised |-> FALSE]
    ELSE [value |-> outcome.num_separated - num_overlapped, raised |-> FALSE]

\* the body without its try / except
_separate_overlapped_unguarded(outcome, num_overlapped) ==
    IF outcome.kind = "fail" THEN [value |-> 0, raised |-> TRUE]
    ELSE IF outcome.kind = "nopeaks" THEN [value |-> 0, raised |-> FALSE]
    ELSE [value |-> Max(0, outcome.num_separated - num_overlapped),
          raised |-> FALSE]

_separate_overlapped(outcome, num_overlapped) ==
    IF outcome.kind = "fail" THEN [value |-> 0, raised |-> FALSE]
    ELSE IF outcome.kind = "nopeaks" THEN [value |-> 0, raised |-> FALSE]
    ELSE [value |-> Max(0, outcome.num_separated - num_overlapped),
          raised |-> FALSE]

\* ------------------------------------------------------------ count_contours
\* the early return for an empty contour list
EmptyCount ==
    [total_count |-> 0, individual_count |-> 0, overlapped_count |-> 0,
     partial_count |-> 0, artifacts_count |-> 0, contours |-> <<>>]

\* the partial contours taken out of the individual count as well
individual_drops_partial(areas, artifacts, overlapped) ==
    Len(areas) - artifacts - overlapped
      - CountClass(areas, median2(areas), "partial")

\* the overlapped contours left in the individual count
individual_keeps_overlapped(areas, artifacts, overlapped) == Len(areas) - artifacts

\* individual = len(contours) - artifacts - overlapped
individual(areas, artifacts, overlapped) == Len(areas) - artifacts - overlapped

\* the separator is called only when overlapped_contours is non-empty
SeparatorRuns(areas) ==
    Len(areas) > 0 /\ CountClass(areas, median2(areas), "overlapped") > 0

\* result: the returned dictionary; raised: an exception left count_contours
count_contours(areas, outcome) ==
    IF Len(areas) = 0 THEN [raised |-> FALSE, result |-> EmptyCount]
    ELSE
      LET m2 == median2(areas)
          artifacts == CountClass(areas, m2, "artifact")
          partial == CountClass(areas, m2, "partial")
          overlapped == CountClass(areas, m2, "overlapped")
          sep == IF overlapped > 0
                 THEN _separate_overlapped(outcome, overlapped)
                 ELSE [value |-> 0, raised |-> FALSE]
          additional_count == sep.value
          indiv == individual(areas, artifacts, overlapped)
      IN  IF sep.raised THEN [raised |-> TRUE, result |-> NoResult]
          ELSE [raised |-> FALSE,
                result |->
                  [total_count |-> indiv + additional_count + partial,
                   individual_count |-> indiv,
                   overlapped_count |-> overlapped,
                   additional_separated |-> additional_count,
                   partial_count |-> partial,
                   artifacts_count |-> artifacts,
                   contours |-> areas,
                   median_area |-> <<m2, 2>>]]

\* ------------------------------------------------------ _calculate_confidence
\* (1 - 0.5 * artifacts/(total+artifacts)) * (1 - 0.3 * overlapped/total),
\* clamped to [0, 1], as a fraction
_calculate_confidence(r) ==
    LET total == r.total_count
        artifacts == r.artifacts_count
        overlapped == r.overlapped_count
        num == (2 * (total + artifacts) - artifacts) * (10 * total - 3 * overlapped)
        den == 20 * (total + artifacts) * total
    IN  IF total = 0 THEN <<0, 1>>
        ELSE IF num <= 0 THEN <<0, 1>>
        ELSE IF num >= den THEN <<1, 1>>
        ELSE <<num, den>>

\* ------------------------------------------------------------ preprocess_image
\* the image handed in, used as it is
preprocess_image_as_is(size) == size

\* (width, height) of the array returned for an image of the given size:
\* image.resize(self.img_size)
preprocess_image(size) == img_size

\* ------------------------------------------------------------------- state
VARIABLES
    pc,             \* position in predict / the handler
    image_size,     \* (width, height) of the image handed to predict
    contour_areas,  \* areas of the contours of the mask the network gives
    input_size,     \* (width, height) of the array preprocess_image returns
    ws,             \* what the watershed libraries did in this call
    count_results,  \* the dictionary count_contours returned
    visualization,  \* "none", "ok": the overlay create_visualization built
    confidence,     \* the value _calculate_confidence returned
    raised,         \* "none", or the step whose exception left predict
    result,         \* the dictionary predict returned (mask: its size)
    response        \* what the /api/segment handler sent back

vars == <<pc, image_size, contour_areas, input_size, ws, count_results,
          visualization, confidence, raised, result, response>>

NoSize == <<0, 0>>

NoConfidence == <<0, 0>>

RECURSIVE SeqsUpTo(_, _)
SeqsUpTo(S, n) ==
    IF n = 0 THEN {<<>>}
    ELSE LET shorter == SeqsUpTo(S, n - 1)
         IN  shorter \cup {Append(s, x) : s \in {t \in shorter : Len(t) = n - 1}, x \in S}

InitWith(sizes, areaLists) ==
    /\ pc = "start"
    /\ image_size \in sizes
    /\ contour_areas \in areaLists
    /\ input_size = NoSize
    /\ ws = NotRun
    /\ count_results = NoResult
    /\ visualization = "none"
    /\ confidence = NoConfidence
    /\ raised = "none"
    /\ result = NoResult
    /\ response = NoResult

\* an image of the configured size
Init == InitWith({img_size}, SeqsUpTo(0..MaxArea, MaxContours))

\* images of every size, few contours
InitResize == InitWith(ImageSizes, SeqsUpTo(0..MaxArea, MaxContoursResize))

\* many contours of few distinct areas, image of the configured size
InitWide == InitWith({img_size}, SeqsUpTo(0..MaxAreaWide, MaxContoursWide))

\* segment: preprocess_image resizes the image to img_size, the network maps
\* the array to a mask of the same size, the mask is thresholded at 0.5
Segment ==
    /\ pc = "start"
    /\ input_size' = preprocess_image(image_size)
    /\ pc' = "segmented"
    /\ UNCHANGED <<image_size, contour_areas, ws, count_results, visualization,
                   confidence, raised, result, response>>

\* count_contours(mask), with the call of _separate_overlapped it makes
CountContours ==
    /\ pc = "segmented"
    /\ \E outcome \in (IF SeparatorRuns(contour_areas)
                       THEN WatershedOutcomes ELSE {NotRun}) :
         LET c == count_contours(contour_areas, outcome)
         IN  /\ ws' = outcome
             /\ IF c.raised
                THEN /\ raised' = "watershed"
                     /\ pc' = "raised"
                     /\ UNCHANGED count_results
                ELSE /\ count_results' = c.result
                     /\ pc' = "counted"
                     /\ UNCHANGED raised
    /\ UNCHANGED <<image_size, contour_areas, input_size, visualization,
                   confidence, result, response>>

\* create_visualization(image, mask, contours): not guarded by predict, so an
\* exception of the image or drawing libraries leaves predict
CreateVisualization ==
    /\ pc = "counted"
    /\ \E ok \in BOOLEAN :
         IF ok
         THEN /\ visualization' = "ok"
              /\ pc' = "visualized"
              /\ UNCHANGED raised
         ELSE /\ raised' = "visualization"
              /\ pc' = "raised"
              /\ UNCHANGED visualization
    /\ UNCHANGED <<image_size, contour_areas, input_size, ws, count_results,
                   confidence, result, response>>

\* _calculate_confidence(count_results) and the return of predict
CalculateConfidence ==
    /\ pc = "visualized"
    /\ confidence' = _calculate_confidence(count_results)
    /\ result' = [mask |-> input_size, visualization |-> visualization,
                   confidence |-> _calculate_confidence(count_results)]
                  @@ count_results
    /\ pc' = "returned"
    /\ UNCHANGED <<image_size, contour_areas, input_size, ws, count_results,
                   visualization, raised, response>>

\* result.get(key, 0) of the handler
Get(r, key) == IF key \in DOMAIN r THEN r[key] ELSE 0

\* the rest of the /api/segment handler: the JSON answer, or the 500 answer of
\* its except clause
ApiRespond ==
    /\ pc \in {"returned", "raised"}
    /\ response' =
         IF pc = "raised"
         THEN [success |-> FALSE, status |-> 500]
         ELSE [success |-> TRUE, status |-> 200,
               count |-> result.total_count,
               confidence |-> Get(result, "confidence"),
               overlapped |-> Get(result, "overlapped_count"),
               partial |-> Get(result, "partial_count"),
               artifacts |-> Get(result, "artifacts_count"),
               individual |-> Get(result, "individual_count")]
    /\ pc' = "responded"
    /\ UNCHANGED <<image_size, contour_areas, input_size, ws, count_results,
                   visualization, confidence, raised, result>>

Next ==
    \/ Segment
    \/ CountContours
    \/ CreateVisualization
    \/ CalculateConfidence
    \/ ApiRespond

Spec == Init /\ [][Next]_vars

SpecWide == InitWide /\ [][Next]_vars

SpecResize == InitResize /\ [][Next]_vars

TypeOK ==
    /\ pc \in {"start", "segmented", "counted", "visualized", "returned",
               "raised", "responded"}
    /\ raised \in {"none", "watershed", "visualization"}
    /\ visualization \in {"none", "ok"}

\* ------------------------------------------------------------- properties
\* count_contours has returned a dictionary in this call
Counted == "total_count" \in DOMAIN count_results

num_contours == Len(contour_areas)

\* additional_separated of a count result; the early return for an empty
\* contour list has no such entry and adds nothing
Additional(r) == Get(r, "additional_separated")

FullKeys == {"total_count", "individual_count", "overlapped_count",
             "additional_separated", "partial_count", "artifacts_count",
             "contours", "median_area"}

CountKeys == {"total_count", "individual_count", "overlapped_count",
              "additional_separated", "partial_count", "artifacts_count"}

\* C1: the result of count_contours satisfies total_count = (num_contours -
\* artifacts_count - overlapped_count) + partial_count + additional_separated,
\* and the three terms of the sum and total_count are all >= 0.
C1_TotalCountIdentity ==
    Counted =>
      LET r == count_results
          indiv == num_contours - r.artifacts_count - r.overlapped_count
      IN  /\ r.total_count = indiv + r.partial_count + Additional(r)
          /\ indiv >= 0
          /\ r.partial_count >= 0
          /\ Additional(r) >= 0
          /\ r.total_count >= 0

C1_Witness ==
    /\ Counted
    /\ count_results.artifacts_count > 0
    /\ count_results.partial_count > 0
    /\ count_results.overlapped_count > 0
    /\ Additional(count_results) > 0

\* C2: the classification buckets are disjoint and artifacts_count +
\* partial_count + overlapped_count + individual_count = num_contours, with
\* individual_count the value count_contours returns.
C2_BucketsPartition ==
    Counted =>
      LET r == count_results
          m2 == median2(contour_areas)
          bucket(cls) == {i \in DOMAIN contour_areas :
                            Classify(contour_areas[i], m2) = cls}
      IN  /\ num_contours > 0 =>
                /\ bucket("artifact") \cap bucket("partial") = {}
                /\ bucket("artifact") \cap bucket("overlapped") = {}
                /\ bucket("partial") \cap bucket("overlapped") = {}
          /\ r.artifacts_count + r.partial_count + r.overlapped_count
               + r.individual_count = num_contours

\* C3: the confidence predict returns lies in [0, 1] and is 0.0 if and only
\* if total_count = 0.
C3_ConfidenceZeroIffEmpty ==
    pc = "returned" =>
      /\ confidence[2] > 0
      /\ 0 <= confidence[1]
      /\ confidence[1] <= confidence[2]
      /\ (confidence[1] = 0 <=> result.total_count = 0)

\* C4: additional_separated >= 0 for every input and watershed outcome; it is
\* max(0, separated regions - overlapped contours) when the watershed ran to
\* its end; it is 0 whenever overlapped_count = 0, and then the separator was
\* not run.
C4_AdditionalSeparated ==
    Counted =>
      LET r == count_results
          excess == ws.num_separated - r.overlapped_count
      IN  /\ Additional(r) >= 0
          /\ ws.kind = "regions" =>
                Additional(r) = IF excess > 0 THEN excess ELSE 0
          /\ r.overlapped_count = 0 => Additional(r) = 0 /\ ws = NotRun
          /\ r.overlapped_count > 0 => ws # NotRun

C4_Witness ==
    /\ Counted
    /\ ws.kind = "regions"
    /\ ws.num_separated < count_results.overlapped_count

\* C5: when a step of the overlap separation fails, the failure stays inside
\* _separate_overlapped: no exception of it leaves count_contours or predict,
\* count_contours returns a complete result whose additional_separated is 0
\* and whose artifact, partial and overlapped counts are those of the
\* classification, and predict returns that result.
C5_SeparationFailureContained ==
    ws.kind = "fail" =>
      /\ raised # "watershed"
      /\ Counted
      /\ DOMAIN count_results = FullKeys
      /\ count_results.additional_separated = 0
      /\ LET m2 == median2(contour_areas)
         IN  /\ count_results.artifacts_count
                  = CountClass(contour_areas, m2, "artifact")
             /\ count_results.partial_count
                  = CountClass(contour_areas, m2, "partial")
             /\ count_results.overlapped_count
                  = CountClass(contour_areas, m2, "overlapped")
      /\ pc = "returned" =>
            \A k \in FullKeys : k \in DOMAIN result /\ result[k] = count_results[k]

C5_Witness ==
    /\ ws.kind = "fail"
    /\ ws.step = "watershed"
    /\ pc = "returned"
    /\ result.overlapped_count > 0

\* C6 as stated: an image whose dimensions differ from the configured
\* width x height makes the call fail with a validation error; it is neither
\* resized nor counted.
C6_MismatchIsValidationError ==
    (image_size # img_size /\ pc # "start") =>
      /\ raised = "validation"
      /\ input_size # img_size
      /\ ~Counted

\* C6 amended: an image whose dimensions differ from the configured
\* width x height is resized to the configured size by preprocess_image and the
\* call goes on: no validation error is raised and count_contours counts the
\* contours of the resized grid.
C6_MismatchIsResized ==
    (image_size # img_size /\ pc # "start") =>
      /\ input_size = img_size
      /\ raised # "validation"
      /\ pc # "segmented" =>
            /\ Counted
            /\ count_results = count_contours(contour_areas, ws).result

C6_Witness ==
    /\ image_size # img_size
    /\ pc = "responded"
    /\ response.success
    /\ response.count > 0

\* C7: when create_visualization raises during predict, the caller still
\* receives the count and the confidence of the count result.
C7_VisualizationFailureHarmless ==
    (raised = "visualization" /\ pc = "responded") =>
      /\ response.success
      /\ response.count = count_results.total_count
      /\ response.confidence = _calculate_confidence(count_results)

\* C8: with zero contours counting raises nothing and predict returns a result in
\* which total_count, individual_count, overlapped_count,
\* additional_separated, partial_count and artifacts_count are all present
\* and 0, with confidence 0.0.
C8_EmptyIsAllZero ==
    (num_contours = 0 /\ pc = "returned") =>
      /\ raised = "none"
      /\ \A k \in CountKeys : k \in DOMAIN result /\ result[k] = 0
      /\ result.confidence = <<0, 1>>

\* C9: when the separation ran and credited nothing (it failed, found no
\* peak, or found no region beyond the overlapped contours), each overlapped
\* contour adds exactly 1 to total_count, next to what the other contours
\* add.
C9_DegradedOverlapCountsOne ==
    (Counted /\ ws # NotRun /\ Additional(count_results) = 0) =>
      LET r == count_results
          others == (num_contours - r.artifacts_count - r.overlapped_count)
                      + r.partial_count
      IN  r.total_count = others + r.overlapped_count

\* C10: multiplying every contour area by the same positive constant changes
\* the class of no contour, so artifacts_count, partial_count and
\* overlapped_count are those of the unscaled contours.
C10_ScaleInvariant ==
    (Counted /\ num_contours > 0) =>
      \A c \in 1..MaxScale :
        LET scaled == [i \in DOMAIN contour_areas |-> c * contour_areas[i]]
            m2 == median2(contour_areas)
            sm2 == median2(scaled)
            r == count_contours(scaled, ws).result
        IN  /\ \A i \in DOMAIN contour_areas :
                 Classify(scaled[i], sm2) = Classify(contour_areas[i], m2)
            /\ r.artifacts_count = count_results.artifacts_count
            /\ r.partial_count = count_results.partial_count
            /\ r.overlapped_count = count_results.overlapped_count

C10_Witness ==
    /\ Counted
    /\ count_results.artifacts_count > 0
    /\ count_results.partial_count > 0
    /\ count_results.overlapped_count > 0

\* the contour list is non-empty and all its areas are the same positive one
AllEqualPositive ==
    /\ num_contours >= 1
    /\ contour_areas[1] > 0
    /\ \A i \in DOMAIN contour_areas : contour_areas[i] = contour_areas[1]

\* C11: for n >= 1 contours of one and the same positive area, median_area
\* is that area, no contour is Artifact, Partial or Overlapped, the separator
\* is not run and additional_separated = 0, total_count = individual_count =
\* n, and the confidence is 1.0.
C11_EqualAreasAllIndividual ==
    (AllEqualPositive /\ Counted) =>
      LET r == count_results
      IN  /\ DOMAIN r = FullKeys
          /\ r.median_area[1] = r.median_area[2] * contour_areas[1]
          /\ \A i \in DOMAIN contour_areas :
               Classify(contour_areas[i], median2(contour_areas)) = "none"
          /\ r.artifacts_count = 0
          /\ r.partial_count = 0
          /\ r.overlapped_count = 0
          /\ r.additional_separated = 0
          /\ ws = NotRun
          /\ r.total_count = num_contours
          /\ r.individual_count = num_contours
          /\ pc = "returned" =>
                /\ result.confidence[1] = result.confidence[2]
                /\ result.confidence[2] > 0
                /\ result.total_count = num_contours

C11_Witness ==
    /\ AllEqualPositive
    /\ num_contours = 3
    /\ pc = "returned"
    /\ result.total_count = 3

\* C12: individual_count keeps the Partial contours, so each of them is
\* counted twice: total_count - additional_separated = (contours in none of
\* the Artifact, Partial, Overlapped buckets) + 2 * partial_count.
C12_PartialCountedTwice ==
    Counted =>
      LET r == count_results
          unclassified ==
            IF num_contours = 0 THEN 0
            ELSE CountClass(contour_areas, median2(contour_areas), "none")
      IN  /\ r.total_count - Additional(r) = unclassified + 2 * r.partial_count
          /\ r.individual_count = unclassified + r.partial_count

\* total_count exceeds num_contours although additional_separated = 0
C12_Witness ==
    /\ Counted
    /\ count_results.partial_count > 0
    /\ Additional(count_results) = 0
    /\ count_results.total_count > num_contours

====
